---- MODULE Spec2Model ----
(***************************************************************************)
(* Model of the two scrapers of the collector package:                     *)
(*   ScrapeInnodbTrx.Scrape        (collector/info_schema_innodb_trx.go)   *)
(*   ScrapeAuroraHostStatus.Scrape (information_schema.replica_host_status)*)
(* Each Scrape call issues one QueryContext, iterates the cursor with      *)
(* Next/Scan and sends the points of every row on the shared channel ch.   *)
(* A call is split into steps at the points where the goroutine can be     *)
(* pre-empted or can block: the query, Next, Scan and each channel send.   *)
(* database/sql (QueryContext, Rows.Next, Rows.Scan, Rows.Close), the      *)
(* context and the consumer of the channel are the environment.            *)
(***************************************************************************)
EXTENDS Integers, Sequences, FiniteSets, TLC

(* Bounds of the model. *)
MaxRows == 2      \* rows of one result set
MaxCalls == 2     \* Scrape invocations in one behaviour
ChanCap == 1      \* buffer of the metric channel

Trx == "ScrapeInnodbTrx"
Aurora == "ScrapeAuroraHostStatus"
Scrapers == {Trx, Aurora}

(* The three destinations of Scan, in both scrapers. *)
NCols == 3

(* Outcomes of a call: the returned error, nil, or still running. *)
Running == "running"
Nil == "nil"
ErrCtx == "context canceled"
ErrQuery == "query error"
ErrScan == "scan error"

(***************************************************************************)
(* Driver values.  A cell is <<v>>, or <<>> for SQL NULL, which Scan cannot *)
(* convert into a uint64, float64 or string destination.                    *)
(***************************************************************************)
NULL == <<>>
Cell(v) == <<v>>

(* Row i of the innodb_trx query: three counts (row 1 is 5, 2, 0). *)
TrxRow(i) == <<Cell(5 * i), Cell(2 * i), Cell(i - 1)>>

(* Row i of the replica_host_status query: server_id, cpu, replica_lag. *)
AuroraRow(i) == <<Cell("i-" \o ToString(i)), Cell(12 * i), Cell(3 * i)>>

GoodRow(s, i) == IF s = Trx THEN TrxRow(i) ELSE AuroraRow(i)

(* The same row with a NULL in one column: column 1 in row 1, column 2 in
   row 2, and so on round the three columns. *)
NullCol(i) == ((i - 1) % NCols) + 1
BadRow(s, i) == [GoodRow(s, i) EXCEPT ![NullCol(i)] = NULL]

(* The result sets the database can answer the query of s with: up to
   MaxRows rows, each of them decodable or not. *)
ResultSets(s) ==
  UNION { { [i \in 1..n |-> IF i \in bad THEN BadRow(s, i) ELSE GoodRow(s, i)] :
              bad \in SUBSET (1..n) } : n \in 0..MaxRows }

(* Version(): the minimum MySQL version of the scraper, 5.6, in tenths. *)
Version(s) == 56

(* The servers db can be connected to: the server version in tenths and the
   scrapers whose table the server has.  MySQL 5.1 has neither table; MySQL
   5.5 has innodb_trx; MySQL 5.7 has innodb_trx and not
   replica_host_status; Aurora has both. *)
Engines ==
  { [version |-> 51, tables |-> {}],
    [version |-> 55, tables |-> {Trx}],
    [version |-> 57, tables |-> {Trx}],
    [version |-> 57, tables |-> {Trx, Aurora}] }

(***************************************************************************)
(* Metric descriptors and points.                                          *)
(***************************************************************************)
namespace == "namespace"
informationSchema == "informationSchema"

BuildFQName(ns, subsystem, name) == <<ns, subsystem, name>>

NewDesc(fqName, variableLabels) ==
  [fqName |-> fqName, variableLabels |-> variableLabels]

infoSchemaTrxCountDesc ==
  NewDesc(BuildFQName(namespace, informationSchema, "trx_count_per_sec"),
          <<"period">>)

infoSchemaAuroraCPUUsageDesc ==
  NewDesc(BuildFQName(namespace, informationSchema, "aurora_status_cpu_usage"),
          <<"server_id">>)

infoSchemaAuroraReplicaLagDesc ==
  NewDesc(BuildFQName(namespace, informationSchema, "aurora_status_replica_lag_ms"),
          <<"server_id">>)

(* float64(x): exact for every count below 2^53, and for a float64. *)
Float64(x) == x

(* MustNewConstMetric(desc, GaugeValue, value, labelValues...). *)
MustNewConstMetric(desc, value, labelValues) ==
  [desc |-> desc, valueType |-> "GaugeValue", value |-> value,
   labelValues |-> labelValues]

(* The loop body with its last send left out. *)
TrxPoints_TwoSends(v) ==
  << MustNewConstMetric(infoSchemaTrxCountDesc, Float64(v[1]), <<"5">>),
     MustNewConstMetric(infoSchemaTrxCountDesc, Float64(v[2]), <<"30">>) >>

(* The loop body with the counts of the last two periods exchanged. *)
TrxPoints_CountsExchanged(v) ==
  << MustNewConstMetric(infoSchemaTrxCountDesc, Float64(v[1]), <<"5">>),
     MustNewConstMetric(infoSchemaTrxCountDesc, Float64(v[3]), <<"30">>),
     MustNewConstMetric(infoSchemaTrxCountDesc, Float64(v[2]), <<"60">>) >>

(* The sends of one loop body, in program order, from the scanned variables. *)
TrxPoints(v) ==
  << MustNewConstMetric(infoSchemaTrxCountDesc, Float64(v[1]), <<"5">>),
     MustNewConstMetric(infoSchemaTrxCountDesc, Float64(v[2]), <<"30">>),
     MustNewConstMetric(infoSchemaTrxCountDesc, Float64(v[3]), <<"60">>) >>

(* The loop body with its two sends exchanged. *)
AuroraPoints_LagFirst(v) ==
  << MustNewConstMetric(infoSchemaAuroraReplicaLagDesc, Float64(v[3]), <<v[1]>>),
     MustNewConstMetric(infoSchemaAuroraCPUUsageDesc, Float64(v[2]), <<v[1]>>) >>

(* The replica-lag point built without its label value. *)
AuroraPoints_LagUnlabelled(v) ==
  << MustNewConstMetric(infoSchemaAuroraCPUUsageDesc, Float64(v[2]), <<v[1]>>),
     MustNewConstMetric(infoSchemaAuroraReplicaLagDesc, Float64(v[3]), <<>>) >>

(* The sends of one loop body, in program order, from the scanned variables. *)
AuroraPoints(v) ==
  << MustNewConstMetric(infoSchemaAuroraCPUUsageDesc, Float64(v[2]), <<v[1]>>),
     MustNewConstMetric(infoSchemaAuroraReplicaLagDesc, Float64(v[3]), <<v[1]>>) >>

Points(s, v) == IF s = Trx THEN TrxPoints(v) ELSE AuroraPoints(v)

(* Zero values of the variables declared before the loop. *)
ZeroVars(s) == IF s = Trx THEN <<0, 0, 0>> ELSE <<"", 0, 0>>

(***************************************************************************)
(* Rows.Scan: converts the columns in order into the destinations and      *)
(* stops at the first one it cannot convert.                               *)
(***************************************************************************)
FirstNull(row) ==
  IF \E c \in 1..NCols : row[c] = NULL
    THEN CHOOSE c \in 1..NCols :
           /\ row[c] = NULL
           /\ \A d \in 1..(c - 1) : row[d] # NULL
    ELSE 0

ScanInto(v, row) ==
  LET n == FirstNull(row)
  IN  [c \in 1..NCols |->
         IF n = 0 \/ c < n THEN row[c][1] ELSE v[c]]

(***************************************************************************)
(* State.                                                                  *)
(***************************************************************************)
VARIABLES
  pc,        \* position of each scraper's Scrape call
  ctxDone,   \* ctx of the call is cancelled or past its deadline
  queries,   \* QueryContext calls issued by the current call
  qres,      \* what QueryContext returned: "pending", "rows" or its error
  cursor,    \* "none", "open" or "closed": the *sql.Rows of the call
  closes,    \* Rows.Close calls of the current call
  rows,      \* the result set behind the cursor
  pos,       \* rows the cursor has delivered
  iterErr,   \* Rows.Err() is not nil: the iteration was cut short
  vars,      \* the three variables Scan writes
  pidx,      \* next send of the loop body
  outcome,   \* error returned by the call
  callNo,    \* calls of each scraper started so far
  prev,      \* inputs and results of each scraper's previous call
  calls,     \* Scrape calls started so far
  engine,    \* the database server behind db
  ch,        \* the metric channel: its buffer
  chClosed,  \* the metric channel has been closed
  recv       \* what the consumer has received of each scraper's current call

vars_call == <<pc, ctxDone, queries, qres, cursor, closes, rows, pos, iterErr, vars,
               pidx, outcome, callNo, prev, calls, engine>>
vars_chan == <<ch, chClosed, recv>>
allvars == <<pc, ctxDone, queries, qres, cursor, closes, rows, pos, iterErr, vars,
             pidx, outcome, callNo, prev, calls, engine, ch, chClosed, recv>>

(* A point on the channel, with the call that sent it. *)
Sent(s, n, p) == [src |-> s, call |-> n, point |-> p]

Pick(q, s, n) ==
  LET of(e) == e.src = s /\ e.call = n
      F[i \in 0..Len(q)] ==
        IF i = 0 THEN <<>>
        ELSE IF of(q[i]) THEN Append(F[i - 1], q[i].point) ELSE F[i - 1]
  IN  F[Len(q)]

(* The part of the output stream that the current call of scraper s has
   contributed, in stream order: what the consumer has received of it and
   what the channel still holds of it. *)
emitted(s) == recv[s] \o Pick(ch, s, callNo[s])

NoPrev == [has |-> FALSE]

Summary(s) ==
  [has |-> TRUE, qres |-> qres[s], rows |-> rows[s], iterErr |-> iterErr[s],
   pos |-> pos[s], outcome |-> outcome[s], emitted |-> emitted(s)]

Init ==
  /\ pc = [s \in Scrapers |-> "idle"]
  /\ ctxDone = [s \in Scrapers |-> FALSE]
  /\ queries = [s \in Scrapers |-> 0]
  /\ qres = [s \in Scrapers |-> "pending"]
  /\ cursor = [s \in Scrapers |-> "none"]
  /\ closes = [s \in Scrapers |-> 0]
  /\ rows = [s \in Scrapers |-> <<>>]
  /\ pos = [s \in Scrapers |-> 0]
  /\ iterErr = [s \in Scrapers |-> FALSE]
  /\ vars = [s \in Scrapers |-> ZeroVars(s)]
  /\ pidx = [s \in Scrapers |-> 0]
  /\ outcome = [s \in Scrapers |-> Running]
  /\ callNo = [s \in Scrapers |-> 0]
  /\ prev = [s \in Scrapers |-> NoPrev]
  /\ calls = 0
  /\ engine \in Engines
  /\ ch = <<>>
  /\ chClosed = FALSE
  /\ recv = [s \in Scrapers |-> <<>>]

(***************************************************************************)
(* Steps of Scrape.                                                        *)
(***************************************************************************)

(* A scraper that never closes its cursor. *)
DeferredClose_Missing(c) == c

(* defer rows.Close(): runs at every return after the query succeeded, on
   the cursor as the return finds it (Close of a closed cursor does nothing). *)
DeferredClose(c) == IF c = "none" THEN "none" ELSE "closed"

(* defer rows.Close() placed before the check of the query's error. *)
Return_DefersBeforeErrCheck(s, err, c) ==
  /\ outcome' = [outcome EXCEPT ![s] = err]
  /\ cursor' = [cursor EXCEPT ![s] = DeferredClose(c)]
  /\ closes' = [closes EXCEPT ![s] = @ + 1]
  /\ pc' = [pc EXCEPT ![s] = "done"]

(* return err / return nil, with the deferred Close, which is registered
   once the query has succeeded; c is the cursor at the return statement,
   "none" at the return of the query's error. *)
Return(s, err, c) ==
  /\ outcome' = [outcome EXCEPT ![s] = err]
  /\ cursor' = [cursor EXCEPT ![s] = DeferredClose(c)]
  /\ closes' = [closes EXCEPT ![s] = IF c = "none" THEN @ ELSE @ + 1]
  /\ pc' = [pc EXCEPT ![s] = "done"]

(* A scraper that keeps its row position from one call to the next. *)
Start_KeepsCursorPos(s) ==
  /\ pc[s] \in {"idle", "done"}
  /\ calls < MaxCalls
  /\ \/ \A t \in Scrapers \ {s} : callNo[t] = 0
     \/ callNo[s] = 0 /\ \A t \in Scrapers \ {s} : callNo[t] = 1
  /\ calls' = calls + 1
  /\ callNo' = [callNo EXCEPT ![s] = @ + 1]
  /\ prev' = IF pc[s] = "done" THEN [prev EXCEPT ![s] = Summary(s)] ELSE prev
  /\ pc' = [pc EXCEPT ![s] = "query"]
  /\ ctxDone' = [ctxDone EXCEPT ![s] = FALSE]
  /\ queries' = [queries EXCEPT ![s] = 1]
  /\ qres' = [qres EXCEPT ![s] = "pending"]
  /\ cursor' = [cursor EXCEPT ![s] = "none"]
  /\ closes' = [closes EXCEPT ![s] = 0]
  /\ rows' = [rows EXCEPT ![s] = <<>>]
  /\ UNCHANGED pos
  /\ iterErr' = [iterErr EXCEPT ![s] = FALSE]
  /\ vars' = [vars EXCEPT ![s] = ZeroVars(s)]
  /\ pidx' = [pidx EXCEPT ![s] = 0]
  /\ outcome' = [outcome EXCEPT ![s] = Running]
  /\ recv' = [recv EXCEPT ![s] = <<>>]
  /\ UNCHANGED <<ch, chClosed, engine>>

(* A scraper that checks the server version itself and returns nil, without
   a query, from a server older than Version(). *)
Start_ChecksVersion(s) ==
  /\ pc[s] \in {"idle", "done"}
  /\ calls < MaxCalls
  /\ \/ \A t \in Scrapers \ {s} : callNo[t] = 0
     \/ callNo[s] = 0 /\ \A t \in Scrapers \ {s} : callNo[t] = 1
  /\ calls' = calls + 1
  /\ callNo' = [callNo EXCEPT ![s] = @ + 1]
  /\ prev' = IF pc[s] = "done" THEN [prev EXCEPT ![s] = Summary(s)] ELSE prev
  /\ IF engine.version < Version(s)
       THEN /\ pc' = [pc EXCEPT ![s] = "done"]
            /\ queries' = [queries EXCEPT ![s] = 0]
            /\ outcome' = [outcome EXCEPT ![s] = Nil]
       ELSE /\ pc' = [pc EXCEPT ![s] = "query"]
            /\ queries' = [queries EXCEPT ![s] = 1]
            /\ outcome' = [outcome EXCEPT ![s] = Running]
  /\ ctxDone' = [ctxDone EXCEPT ![s] = FALSE]
  /\ qres' = [qres EXCEPT ![s] = "pending"]
  /\ cursor' = [cursor EXCEPT ![s] = "none"]
  /\ closes' = [closes EXCEPT ![s] = 0]
  /\ rows' = [rows EXCEPT ![s] = <<>>]
  /\ pos' = [pos EXCEPT ![s] = 0]
  /\ iterErr' = [iterErr EXCEPT ![s] = FALSE]
  /\ vars' = [vars EXCEPT ![s] = ZeroVars(s)]
  /\ pidx' = [pidx EXCEPT ![s] = 0]
  /\ recv' = [recv EXCEPT ![s] = <<>>]
  /\ UNCHANGED <<ch, chClosed, engine>>

(* The orchestrator calls Scrape(ctx, db, ch, logger); the call issues
   db.QueryContext(ctx, query) and waits for it.  The orchestrator either
   runs the scrapers concurrently, once each, or invokes one scraper again
   and again. *)
Start(s) ==
  /\ pc[s] \in {"idle", "done"}
  /\ calls < MaxCalls
  /\ \/ \A t \in Scrapers \ {s} : callNo[t] = 0
     \/ callNo[s] = 0 /\ \A t \in Scrapers \ {s} : callNo[t] = 1
  /\ calls' = calls + 1
  /\ callNo' = [callNo EXCEPT ![s] = @ + 1]
  /\ prev' = IF pc[s] = "done" THEN [prev EXCEPT ![s] = Summary(s)] ELSE prev
  /\ pc' = [pc EXCEPT ![s] = "query"]
  /\ ctxDone' = [ctxDone EXCEPT ![s] = FALSE]
  /\ queries' = [queries EXCEPT ![s] = 1]
  /\ qres' = [qres EXCEPT ![s] = "pending"]
  /\ cursor' = [cursor EXCEPT ![s] = "none"]
  /\ closes' = [closes EXCEPT ![s] = 0]
  /\ rows' = [rows EXCEPT ![s] = <<>>]
  /\ pos' = [pos EXCEPT ![s] = 0]
  /\ iterErr' = [iterErr EXCEPT ![s] = FALSE]
  /\ vars' = [vars EXCEPT ![s] = ZeroVars(s)]
  /\ pidx' = [pidx EXCEPT ![s] = 0]
  /\ outcome' = [outcome EXCEPT ![s] = Running]
  /\ recv' = [recv EXCEPT ![s] = <<>>]
  /\ UNCHANGED <<ch, chClosed, engine>>

(* The query issued with db.Query: the context is not looked at. *)
QueryReturn_IgnoresCtx(s) ==
  /\ pc[s] = "query"
  /\ \/ /\ ctxDone[s]
        /\ qres' = [qres EXCEPT ![s] = ErrCtx]
        /\ Return(s, ErrCtx, "none")
        /\ UNCHANGED rows
     \/ /\ ~ctxDone[s]
        /\ qres' = [qres EXCEPT ![s] = ErrQuery]
        /\ Return(s, ErrQuery, "none")
        /\ UNCHANGED rows
     \/ /\ s \in engine.tables
        /\ \E rs \in ResultSets(s) :
             /\ qres' = [qres EXCEPT ![s] = "rows"]
             /\ rows' = [rows EXCEPT ![s] = rs]
             /\ cursor' = [cursor EXCEPT ![s] = "open"]
             /\ pc' = [pc EXCEPT ![s] = "next"]
             /\ UNCHANGED <<outcome, closes>>
  /\ UNCHANGED <<ctxDone, queries, pos, iterErr, vars, pidx, callNo, prev, calls, engine>>
  /\ UNCHANGED vars_chan

(* A failed query is issued a second time before the error is returned. *)
QueryReturn_Retries(s) ==
  /\ pc[s] = "query"
  /\ \/ /\ ctxDone[s]
        /\ qres' = [qres EXCEPT ![s] = ErrCtx]
        /\ Return(s, ErrCtx, "none")
        /\ UNCHANGED rows
     \/ /\ ~ctxDone[s]
        /\ qres' = [qres EXCEPT ![s] = ErrQuery]
        /\ IF queries[s] = 1
             THEN /\ queries' = [queries EXCEPT ![s] = 2]
                  /\ UNCHANGED <<outcome, closes, cursor, pc>>
             ELSE /\ Return(s, ErrQuery, "none")
                  /\ UNCHANGED queries
        /\ UNCHANGED rows
     \/ /\ ~ctxDone[s]
        /\ s \in engine.tables
        /\ \E rs \in ResultSets(s) :
             /\ qres' = [qres EXCEPT ![s] = "rows"]
             /\ rows' = [rows EXCEPT ![s] = rs]
             /\ cursor' = [cursor EXCEPT ![s] = "open"]
             /\ pc' = [pc EXCEPT ![s] = "next"]
             /\ UNCHANGED <<outcome, closes, queries>>
  /\ UNCHANGED <<ctxDone, pos, iterErr, vars, pidx, callNo, prev, calls, engine>>
  /\ UNCHANGED vars_chan

(* QueryContext returns: the context's error if the context is done, else
   an error of the database (the only answer of an engine without the
   table) or the cursor of a result set.
   if err != nil { return err }; defer rows.Close(). *)
QueryReturn(s) ==
  /\ pc[s] = "query"
  /\ \/ /\ ctxDone[s]
        /\ qres' = [qres EXCEPT ![s] = ErrCtx]
        /\ Return(s, ErrCtx, "none")
        /\ UNCHANGED rows
     \/ /\ ~ctxDone[s]
        /\ qres' = [qres EXCEPT ![s] = ErrQuery]
        /\ Return(s, ErrQuery, "none")
        /\ UNCHANGED rows
     \/ /\ ~ctxDone[s]
        /\ s \in engine.tables
        /\ \E rs \in ResultSets(s) :
             /\ qres' = [qres EXCEPT ![s] = "rows"]
             /\ rows' = [rows EXCEPT ![s] = rs]
             /\ cursor' = [cursor EXCEPT ![s] = "open"]
             /\ pc' = [pc EXCEPT ![s] = "next"]
             /\ UNCHANGED <<outcome, closes>>
  /\ UNCHANGED <<ctxDone, queries, pos, iterErr, vars, pidx, callNo, prev, calls, engine>>
  /\ UNCHANGED vars_chan

(* A scraper that closes the channel when it has sent its last point. *)
RowsNext_ClosesStream(s) ==
  /\ pc[s] = "next"
  /\ \/ /\ pos[s] < Len(rows[s])
        /\ iterErr' = [iterErr EXCEPT ![s] = TRUE]
        /\ Return(s, Nil, "closed")
        /\ UNCHANGED <<pos, chClosed>>
     \/ /\ pos[s] = Len(rows[s])
        /\ Return(s, Nil, "closed")
        /\ chClosed' = TRUE
        /\ UNCHANGED <<pos, iterErr>>
     \/ /\ pos[s] < Len(rows[s])
        /\ pos' = [pos EXCEPT ![s] = @ + 1]
        /\ pc' = [pc EXCEPT ![s] = "scan"]
        /\ UNCHANGED <<iterErr, outcome, closes, cursor, chClosed>>
  /\ UNCHANGED <<ctxDone, queries, qres, rows, vars, pidx, callNo, prev, calls, engine>>
  /\ UNCHANGED <<ch, recv>>

(* A loop that does not end when Next returns false at the end of the
   result set, and calls Next again. *)
RowsNext_SpinsAtEnd(s) ==
  /\ pc[s] = "next"
  /\ \/ /\ pos[s] < Len(rows[s])
        /\ iterErr' = [iterErr EXCEPT ![s] = TRUE]
        /\ Return(s, Nil, "closed")
        /\ UNCHANGED pos
     \/ /\ pos[s] = Len(rows[s])
        /\ UNCHANGED <<pos, iterErr, outcome, cursor, closes, pc>>
     \/ /\ pos[s] < Len(rows[s])
        /\ pos' = [pos EXCEPT ![s] = @ + 1]
        /\ pc' = [pc EXCEPT ![s] = "scan"]
        /\ UNCHANGED <<iterErr, outcome, closes, cursor>>
  /\ UNCHANGED <<ctxDone, queries, qres, rows, vars, pidx, callNo, prev, calls, engine>>
  /\ UNCHANGED vars_chan

(* for rows.Next() { ... }; return nil.  Next returns false at the end of
   the result set and when the iteration fails, and the cursor is then
   closed by database/sql; the loop is left and the call returns nil. *)
RowsNext(s) ==
  /\ pc[s] = "next"
  /\ \/ \* the connection fails, or the cancelled context closes the cursor
        /\ pos[s] < Len(rows[s])
        /\ iterErr' = [iterErr EXCEPT ![s] = TRUE]
        /\ Return(s, Nil, "closed")
        /\ UNCHANGED pos
     \/ \* end of the result set
        /\ pos[s] = Len(rows[s])
        /\ Return(s, Nil, "closed")
        /\ UNCHANGED <<pos, iterErr>>
     \/ \* a row is ready
        /\ pos[s] < Len(rows[s])
        /\ pos' = [pos EXCEPT ![s] = @ + 1]
        /\ pc' = [pc EXCEPT ![s] = "scan"]
        /\ UNCHANGED <<iterErr, outcome, closes, cursor>>
  /\ UNCHANGED <<ctxDone, queries, qres, rows, vars, pidx, callNo, prev, calls, engine>>
  /\ UNCHANGED vars_chan

(* A row that does not decode is skipped and the loop goes on. *)
Scan_Continues(s) ==
  /\ pc[s] = "scan"
  /\ LET row == rows[s][pos[s]]
     IN  /\ vars' = [vars EXCEPT ![s] = ScanInto(vars[s], row)]
         /\ IF FirstNull(row) # 0
              THEN /\ pc' = [pc EXCEPT ![s] = "next"]
                   /\ UNCHANGED <<pidx, outcome, closes, cursor>>
              ELSE /\ pc' = [pc EXCEPT ![s] = "send"]
                   /\ pidx' = [pidx EXCEPT ![s] = 1]
                   /\ UNCHANGED <<outcome, closes, cursor>>
  /\ UNCHANGED <<ctxDone, queries, qres, rows, pos, iterErr, callNo, prev, calls, engine>>
  /\ UNCHANGED vars_chan

(* A failing call throws away what the channel holds. *)
Scan_FailureEmptiesChannel(s) ==
  /\ pc[s] = "scan"
  /\ LET row == rows[s][pos[s]]
     IN  /\ vars' = [vars EXCEPT ![s] = ScanInto(vars[s], row)]
         /\ IF FirstNull(row) # 0
              THEN /\ Return(s, ErrScan, cursor[s])
                   /\ UNCHANGED pidx
              ELSE /\ pc' = [pc EXCEPT ![s] = "send"]
                   /\ pidx' = [pidx EXCEPT ![s] = 1]
                   /\ UNCHANGED <<outcome, closes, cursor>>
  /\ UNCHANGED <<ctxDone, queries, qres, rows, pos, iterErr, callNo, prev, calls, engine>>
  /\ ch' = IF FirstNull(rows[s][pos[s]]) # 0 THEN <<>> ELSE ch
  /\ UNCHANGED <<chClosed, recv>>

(* After the first row the first destination is no longer written. *)
Scan_KeepsFirstColumn(s) ==
  /\ pc[s] = "scan"
  /\ LET row == rows[s][pos[s]]
         new == ScanInto(vars[s], row)
     IN  /\ vars' = [vars EXCEPT ![s] =
                       IF pos[s] > 1 THEN [new EXCEPT ![1] = vars[s][1]] ELSE new]
         /\ IF FirstNull(row) # 0
              THEN /\ Return(s, ErrScan, cursor[s])
                   /\ UNCHANGED pidx
              ELSE /\ pc' = [pc EXCEPT ![s] = "send"]
                   /\ pidx' = [pidx EXCEPT ![s] = 1]
                   /\ UNCHANGED <<outcome, closes, cursor>>
  /\ UNCHANGED <<ctxDone, queries, qres, rows, pos, iterErr, callNo, prev, calls, engine>>
  /\ UNCHANGED vars_chan

(* err = rows.Scan(&a, &b, &c); if err != nil { return err } *)
Scan(s) ==
  /\ pc[s] = "scan"
  /\ LET row == rows[s][pos[s]]
     IN  /\ vars' = [vars EXCEPT ![s] = ScanInto(vars[s], row)]
         /\ IF FirstNull(row) # 0
              THEN /\ Return(s, ErrScan, cursor[s])
                   /\ UNCHANGED pidx
              ELSE /\ pc' = [pc EXCEPT ![s] = "send"]
                   /\ pidx' = [pidx EXCEPT ![s] = 1]
                   /\ UNCHANGED <<outcome, closes, cursor>>
  /\ UNCHANGED <<ctxDone, queries, qres, rows, pos, iterErr, callNo, prev, calls, engine>>
  /\ UNCHANGED vars_chan

(* Each send is a select with ctx.Done(): a cancelled call returns the
   context's error in place of its next send. *)
Send_GivesUpWhenCancelled(s) ==
  /\ pc[s] = "send"
  /\ ~chClosed
  /\ IF ctxDone[s]
       THEN /\ Return(s, ErrCtx, cursor[s])
            /\ UNCHANGED <<ch, pidx>>
       ELSE /\ Len(ch) < ChanCap
            /\ LET ps == Points(s, vars[s])
               IN  /\ ch' = Append(ch, Sent(s, callNo[s], ps[pidx[s]]))
                   /\ IF pidx[s] = Len(ps)
                        THEN /\ pc' = [pc EXCEPT ![s] = "next"]
                             /\ pidx' = [pidx EXCEPT ![s] = 0]
                        ELSE /\ pidx' = [pidx EXCEPT ![s] = @ + 1]
                             /\ UNCHANGED pc
            /\ UNCHANGED <<outcome, closes, cursor>>
  /\ UNCHANGED <<ctxDone, queries, qres, rows, pos, iterErr, vars, callNo, prev,
                 calls, engine>>
  /\ UNCHANGED <<chClosed, recv>>

(* The next row is fetched while the points of the current row are still
   being sent. *)
Send_ReadsAhead(s) ==
  /\ pc[s] = "send"
  /\ ~chClosed
  /\ Len(ch) < ChanCap
  /\ LET ps == Points(s, vars[s])
     IN  /\ ch' = Append(ch, Sent(s, callNo[s], ps[pidx[s]]))
         /\ IF pidx[s] = Len(ps)
              THEN /\ pc' = [pc EXCEPT ![s] = "next"]
                   /\ pidx' = [pidx EXCEPT ![s] = 0]
              ELSE /\ pidx' = [pidx EXCEPT ![s] = @ + 1]
                   /\ UNCHANGED pc
  /\ pos' = IF pidx[s] = 1 /\ pos[s] < Len(rows[s])
              THEN [pos EXCEPT ![s] = @ + 1] ELSE pos
  /\ UNCHANGED <<ctxDone, queries, qres, cursor, rows, iterErr, vars, outcome, closes,
                 callNo, prev, calls, engine>>
  /\ UNCHANGED <<chClosed, recv>>

(* ch <- prometheus.MustNewConstMetric(...): blocks while the channel is
   full; a send on a closed channel panics and sends nothing. *)
Send(s) ==
  /\ pc[s] = "send"
  /\ ~chClosed
  /\ Len(ch) < ChanCap
  /\ LET ps == Points(s, vars[s])
     IN  /\ ch' = Append(ch, Sent(s, callNo[s], ps[pidx[s]]))
         /\ IF pidx[s] = Len(ps)
              THEN /\ pc' = [pc EXCEPT ![s] = "next"]
                   /\ pidx' = [pidx EXCEPT ![s] = 0]
              ELSE /\ pidx' = [pidx EXCEPT ![s] = @ + 1]
                   /\ UNCHANGED pc
  /\ UNCHANGED <<ctxDone, queries, qres, cursor, rows, pos, iterErr, vars, outcome, closes,
                 callNo, prev, calls, engine>>
  /\ UNCHANGED <<chClosed, recv>>

(***************************************************************************)
(* Environment.                                                            *)
(***************************************************************************)

(* The context of a call in progress is cancelled or times out. *)
Cancel(s) ==
  /\ pc[s] \notin {"idle", "done"}
  /\ ~ctxDone[s]
  /\ ctxDone' = [ctxDone EXCEPT ![s] = TRUE]
  /\ UNCHANGED <<pc, queries, qres, cursor, rows, pos, iterErr, vars, pidx, outcome, closes,
                 callNo, prev, calls, engine>>
  /\ UNCHANGED vars_chan

(* The consumer receives the oldest point of the channel.  It keeps, per
   scraper, the points of the call in progress or last returned. *)
Drain ==
  /\ ch # <<>>
  /\ LET e == Head(ch)
     IN  recv' = IF e.call = callNo[e.src]
                   THEN [recv EXCEPT ![e.src] = Append(@, e.point)]
                   ELSE recv
  /\ ch' = Tail(ch)
  /\ UNCHANGED chClosed
  /\ UNCHANGED vars_call

Next ==
  \/ \E s \in Scrapers : Start(s)
  \/ \E s \in Scrapers : QueryReturn(s)
  \/ \E s \in Scrapers : RowsNext(s)
  \/ \E s \in Scrapers : Scan(s)
  \/ \E s \in Scrapers : Send(s)
  \/ \E s \in Scrapers : Cancel(s)
  \/ Drain

Spec == Init /\ [][Next]_allvars

(* The goroutine of a call runs whenever it can: a query returns, and a
   call that is not blocked on the channel takes its next step.  Nothing
   obliges the consumer to receive. *)
Step(s) == QueryReturn(s) \/ RowsNext(s) \/ Scan(s) \/ Send(s)

FairSpec == Spec /\ \A s \in Scrapers : WF_allvars(Step(s))

(* The same with a consumer that keeps receiving while the channel holds a
   point, on a server that has the tables of both scrapers (on any other
   server the calls of a scraper end as its failed queries end here). *)
DrainedInit == Init /\ engine.tables = Scrapers

DrainedSpec ==
  /\ DrainedInit /\ [][Next]_allvars
  /\ \A s \in Scrapers : WF_allvars(Step(s))
  /\ WF_allvars(Drain)

(***************************************************************************)
(* What the specification expects of a call, stated from the result set.   *)
(***************************************************************************)
Done(s) == pc[s] = "done"
InProgress(s) == pc[s] \in {"query", "next", "scan", "send"}

Decodes(row) == \A c \in 1..NCols : row[c] # NULL

(* Number of leading rows of rs that decode. *)
DecodablePrefix(rs) ==
  IF \A i \in 1..Len(rs) : Decodes(rs[i]) THEN Len(rs)
  ELSE (CHOOSE i \in 1..Len(rs) :
          /\ ~Decodes(rs[i])
          /\ \A j \in 1..(i - 1) : Decodes(rs[j])) - 1

PointsPerRow(s) == IF s = Trx THEN 3 ELSE 2

Gauge(desc, value, label) ==
  [desc |-> desc, valueType |-> "GaugeValue", value |-> value,
   labelValues |-> <<label>>]

WantRow(s, row) ==
  IF s = Trx
    THEN << Gauge(infoSchemaTrxCountDesc, row[1][1], "5"),
            Gauge(infoSchemaTrxCountDesc, row[2][1], "30"),
            Gauge(infoSchemaTrxCountDesc, row[3][1], "60") >>
    ELSE << Gauge(infoSchemaAuroraCPUUsageDesc, row[2][1], row[1][1]),
            Gauge(infoSchemaAuroraReplicaLagDesc, row[3][1], row[1][1]) >>

(* The points of rows 1..k of rs, row by row. *)
WantRows(s, rs, k) ==
  LET F[i \in 0..k] == IF i = 0 THEN <<>> ELSE F[i - 1] \o WantRow(s, rs[i])
  IN  F[k]

IsPrefix(a, b) == Len(a) <= Len(b) /\ a = SubSeq(b, 1, Len(a))

(* C1: when the query returned a result set of R rows that all decode and
   the iteration was not cut short, the call returns nil and has sent
   exactly R x D points by the time it returns (none for R = 0). *)
C1_AllRowsPushed ==
  \A s \in Scrapers :
    (Done(s) /\ qres[s] = "rows" /\ ~iterErr[s]
       /\ DecodablePrefix(rows[s]) = Len(rows[s]))
    => /\ outcome[s] = Nil
       /\ Len(emitted(s)) = Len(rows[s]) * PointsPerRow(s)

C1_Witness ==
  /\ Done(Trx) /\ outcome[Trx] = Nil /\ ~iterErr[Trx]
  /\ Len(rows[Trx]) >= 2
  /\ Len(emitted(Trx)) = Len(rows[Trx]) * 3

(* C2: when row K is the first row that fails to decode, the call returns
   the Scan error, the stream holds exactly the points of rows 1..K-1, in
   order, and the cursor was not advanced past row K. *)
C2_DecodeErrorStops ==
  \A s \in Scrapers :
    (Done(s) /\ qres[s] = "rows" /\ ~iterErr[s]
       /\ DecodablePrefix(rows[s]) < Len(rows[s]))
    => /\ outcome[s] = ErrScan
       /\ pos[s] = DecodablePrefix(rows[s]) + 1
       /\ emitted(s) = WantRows(s, rows[s], DecodablePrefix(rows[s]))

C2_Witness ==
  /\ Done(Aurora) /\ outcome[Aurora] = ErrScan
  /\ pos[Aurora] = 2 /\ Len(rows[Aurora]) >= 2
  /\ Len(emitted(Aurora)) = 2

(* C3: a query call that returns with the context already done makes the
   call return an error, with no point sent. *)
C3_CancelledQueryFails ==
  [][\A s \in Scrapers :
       (pc[s] = "query" /\ ctxDone[s] /\ pc'[s] # "query")
       => /\ pc'[s] = "done"
          /\ outcome'[s] \notin {Nil, Running}
          /\ recv'[s] \o Pick(ch', s, callNo'[s]) = <<>>]_allvars

C3_Witness ==
  /\ Done(Trx) /\ ctxDone[Trx] /\ qres[Trx] = ErrCtx
  /\ outcome[Trx] = ErrCtx /\ emitted(Trx) = <<>>

(* C4: a call never returns nil having sent the points of only a proper
   prefix of the rows of its result set. *)
C4_NoPartialSilentSuccess ==
  \A s \in Scrapers :
    (Done(s) /\ outcome[s] = Nil)
    => Len(emitted(s)) = Len(rows[s]) * PointsPerRow(s)

(* C5: once a call has returned, its cursor is not open; if the query
   succeeded the cursor has been closed. *)
C5_CursorReleased ==
  \A s \in Scrapers :
    Done(s) => /\ cursor[s] # "open"
               /\ qres[s] = "rows" => cursor[s] = "closed"

C5_Witness ==
  /\ Done(Trx) /\ outcome[Trx] = ErrScan /\ cursor[Trx] = "closed"

(* C6: when QueryContext fails the call returns that error, has sent no
   point, has no cursor and has read no row, and has issued one query. *)
C6_QueryErrorReturned ==
  \A s \in Scrapers :
    (Done(s) /\ qres[s] \in {ErrCtx, ErrQuery})
    => /\ outcome[s] = qres[s]
       /\ emitted(s) = <<>>
       /\ cursor[s] = "none"
       /\ pos[s] = 0
       /\ vars[s] = ZeroVars(s)
       /\ queries[s] = 1

C6_Witness ==
  /\ Done(Aurora) /\ qres[Aurora] = ErrQuery /\ outcome[Aurora] = ErrQuery
  /\ queries[Aurora] = 1

(* C7: a call in progress whose context is done eventually returns. *)
C7_CancelledCallReturns ==
  \A s \in Scrapers : (InProgress(s) /\ ctxDone[s]) ~> Done(s)

(* C8: the points of one scraper are on the stream in row order and, within
   a row, in the order of its sends, however the calls interleave. *)
C8_OwnOrderKept ==
  \A s \in Scrapers :
    IsPrefix(emitted(s), WantRows(s, rows[s], DecodablePrefix(rows[s])))

C8_Witness ==
  /\ pc[Trx] = "send" /\ pc[Aurora] = "send"
  /\ Len(emitted(Trx)) >= 4 /\ Len(emitted(Aurora)) >= 3
  /\ ch # <<>>

(* C9: when one of two concurrent calls has failed, the other, whose query
   and rows are well-formed, is held up by nothing but a full channel, keeps
   sending its points in order and returns nil with all of them; the stream
   holds the failed call's points of before the failure and the other's,
   each once, and nothing else. *)
Failed(s) == Done(s) /\ outcome[s] \in {ErrCtx, ErrQuery, ErrScan}
WellFormed(s) ==
  qres[s] = "rows" /\ ~iterErr[s] /\ DecodablePrefix(rows[s]) = Len(rows[s])
PreFailure(s) ==
  IF outcome[s] = ErrScan THEN WantRows(s, rows[s], pos[s] - 1) ELSE <<>>

C9_FailureIsLocal ==
  \A a \in Scrapers : \A b \in Scrapers \ {a} :
    (Failed(a) /\ callNo[a] = 1 /\ callNo[b] = 1 /\ WellFormed(b))
    => /\ emitted(a) = PreFailure(a)
       /\ IsPrefix(emitted(b), WantRows(b, rows[b], Len(rows[b])))
       /\ Len(recv[a]) + Len(recv[b]) + Len(ch)
            = Len(emitted(a)) + Len(emitted(b))
       /\ InProgress(b) => (ENABLED Step(b) \/ Len(ch) = ChanCap)
       /\ Done(b) => /\ outcome[b] = Nil
                      /\ emitted(b) = WantRows(b, rows[b], Len(rows[b]))

C9_Witness ==
  /\ Failed(Trx) /\ outcome[Trx] = ErrScan /\ Len(emitted(Trx)) = 3
  /\ Pick(ch, Trx, 1) # <<>>
  /\ InProgress(Aurora) /\ WellFormed(Aurora) /\ Len(emitted(Aurora)) >= 2

(* C10: two calls of a scraper with the same query result, the same result
   set and the same iteration failure send the same points in the same
   order and return the same outcome. *)
SameInputs(s) ==
  /\ prev[s].has
  /\ prev[s].qres = qres[s]
  /\ prev[s].rows = rows[s]
  /\ prev[s].iterErr = iterErr[s]
  /\ iterErr[s] => prev[s].pos = pos[s]

C10_Stateless ==
  \A s \in Scrapers :
    (Done(s) /\ SameInputs(s))
    => /\ prev[s].emitted = emitted(s)
       /\ prev[s].outcome = outcome[s]

C10_Witness ==
  /\ Done(Trx) /\ SameInputs(Trx)
  /\ Len(rows[Trx]) >= 2 /\ Len(emitted(Trx)) >= 3

(* C11: a step of a Scrape call leaves the channel as it was or appends one
   point to it: it never takes a point off the channel and never closes it,
   so the channel is open after every return, with nil or with an error. *)
C11_OnlyPushes ==
  [][/\ ~chClosed'
     /\ (vars_call' # vars_call)
          => /\ IsPrefix(ch, ch')
             /\ Len(ch') <= Len(ch) + 1
             /\ \A s \in Scrapers : callNo'[s] = callNo[s] => IsPrefix(recv[s], recv'[s])]_allvars

C11_Witness ==
  /\ Done(Trx) /\ outcome[Trx] = ErrScan
  /\ Done(Aurora) /\ outcome[Aurora] = Nil /\ Len(emitted(Aurora)) >= 2
  /\ ch # <<>> /\ ~chClosed

(* Row k of the current call of s has been decoded by Scan, and all its
   points have been sent. *)
RowDecoded(s, k) ==
  /\ k <= pos[s] /\ Decodes(rows[s][k])
  /\ k = pos[s] => pc[s] # "scan"
RowPushed(s, k) == RowDecoded(s, k) /\ (k = pos[s] => pc[s] # "send")
PushedRows(s) == {k \in 1..Len(rows[s]) : RowPushed(s, k)}
InRow(s) == IF pc[s] = "send" THEN pidx[s] - 1 ELSE 0

(* C12: for every decoded row (a, b, c) ScrapeInnodbTrx sends exactly three
   gauge points of infoSchemaTrxCountDesc, in this order: a with label "5",
   b with label "30", c with label "60". *)
C12_TrxRowPoints ==
  LET e == emitted(Trx)
  IN  /\ Len(e) = 3 * Cardinality(PushedRows(Trx)) + InRow(Trx)
      /\ \A k \in PushedRows(Trx) :
           LET a == rows[Trx][k][1][1]
               b == rows[Trx][k][2][1]
               c == rows[Trx][k][3][1]
           IN  /\ e[3 * k - 2] = Gauge(infoSchemaTrxCountDesc, a, "5")
               /\ e[3 * k - 1] = Gauge(infoSchemaTrxCountDesc, b, "30")
               /\ e[3 * k] = Gauge(infoSchemaTrxCountDesc, c, "60")

(* The row (5, 2, 0) gives 5 / "5", 2 / "30", 0 / "60". *)
C12_Witness ==
  /\ Done(Trx) /\ rows[Trx] = << <<Cell(5), Cell(2), Cell(0)>> >>
  /\ emitted(Trx) = << Gauge(infoSchemaTrxCountDesc, 5, "5"),
                       Gauge(infoSchemaTrxCountDesc, 2, "30"),
                       Gauge(infoSchemaTrxCountDesc, 0, "60") >>

(* C13: for every decoded row (server_id, cpu, replica_lag)
   ScrapeAuroraHostStatus sends exactly two gauge points, the cpu value of
   the cpu-usage descriptor and then the replica_lag value of the
   replica-lag descriptor, both labelled with the server_id of that row and
   of no other row. *)
C13_AuroraRowPoints ==
  LET e == emitted(Aurora)
  IN  /\ Len(e) = 2 * Cardinality(PushedRows(Aurora)) + InRow(Aurora)
      /\ \A k \in PushedRows(Aurora) :
           LET id == rows[Aurora][k][1][1]
               cpu == rows[Aurora][k][2][1]
               lag == rows[Aurora][k][3][1]
           IN  /\ e[2 * k - 1] = Gauge(infoSchemaAuroraCPUUsageDesc, cpu, id)
               /\ e[2 * k] = Gauge(infoSchemaAuroraReplicaLagDesc, lag, id)

(* Two rows give four points, one of each family for each server. *)
C13_Witness ==
  /\ Done(Aurora) /\ outcome[Aurora] = Nil /\ Len(rows[Aurora]) = 2
  /\ emitted(Aurora) =
       << Gauge(infoSchemaAuroraCPUUsageDesc, 12, "i-1"),
          Gauge(infoSchemaAuroraReplicaLagDesc, 3, "i-1"),
          Gauge(infoSchemaAuroraCPUUsageDesc, 24, "i-2"),
          Gauge(infoSchemaAuroraReplicaLagDesc, 6, "i-2") >>

(* The points of the call of s after the step. *)
emittedNext(s) == recv'[s] \o Pick(ch', s, callNo'[s])

(* Before the query has returned the call has no cursor, has read no row and
   has sent nothing; a call has issued one query. *)
QueryFirst(s) ==
  /\ pc[s] # "idle" => queries[s] = 1
  /\ pc[s] = "query" => cursor[s] = "none" /\ pos[s] = 0 /\ emitted(s) = <<>>

(* One step of the call of s: the operations follow each other in program
   order, one at a time. *)
InOrder(s) ==
  /\ (pc'[s] # pc[s] \/ pidx'[s] # pidx[s]) =>
       \/ pc[s] \in {"idle", "done"} /\ pc'[s] = "query"
       \/ pc[s] = "query" /\ pc'[s] \in {"next", "done"}
       \/ pc[s] = "next" /\ pc'[s] \in {"scan", "done"}
       \/ pc[s] = "scan" /\ pc'[s] = "send" /\ pidx'[s] = 1
       \/ pc[s] = "scan" /\ pc'[s] = "done"
       \/ pc[s] = "send" /\ pc'[s] = "send" /\ pidx[s] < PointsPerRow(s)
            /\ pidx'[s] = pidx[s] + 1
       \/ pc[s] = "send" /\ pc'[s] = "next" /\ pidx[s] = PointsPerRow(s)
  /\ queries'[s] # queries[s] => pc[s] \in {"idle", "done"} /\ pc'[s] = "query"
  /\ (callNo'[s] = callNo[s] /\ pos'[s] # pos[s]) =>
       /\ pc[s] = "next" /\ pc'[s] = "scan"
       /\ pos'[s] = pos[s] + 1
       /\ Len(emitted(s)) = PointsPerRow(s) * pos[s]
       /\ emittedNext(s) = emitted(s)
  /\ (callNo'[s] = callNo[s] /\ emittedNext(s) # emitted(s)) =>
       /\ pc[s] = "send"
       /\ Len(emittedNext(s)) = Len(emitted(s)) + 1
       /\ Len(emittedNext(s)) = PointsPerRow(s) * (pos[s] - 1) + pidx[s]

(* C14: a call issues one query, before any cursor operation and any send,
   and then takes the rows one after the other: Next, Scan, the sends of the
   row, and Next again only when all points of the row have been sent; every
   step of the call is one of these operations. *)
C14_OneQueryThenRowByRow ==
  /\ [](\A s \in Scrapers : QueryFirst(s))
  /\ [][\A s \in Scrapers : InOrder(s)]_allvars

C14_Witness ==
  /\ pc[Trx] = "send" /\ pos[Trx] = 2 /\ pidx[Trx] = 2
  /\ Len(emitted(Trx)) = 4 /\ queries[Trx] = 1
  /\ InProgress(Aurora)

(* A point has one label value for each label name of its descriptor; with
   fewer or more MustNewConstMetric panics. *)
ArityOK(p) == Len(p.labelValues) = Len(p.desc.variableLabels)
LabelNames(s) == IF s = Trx THEN <<"period">> ELSE <<"server_id">>
PointOK(s, p) == ArityOK(p) /\ p.desc.variableLabels = LabelNames(s)

(* C15: every point a call builds, for the row it is sending and for the
   rows before it, has exactly one label value, for the one label name of
   its descriptor ("period", "server_id"). *)
C15_LabelArity ==
  /\ \A i \in 1..Len(ch) : PointOK(ch[i].src, ch[i].point)
  /\ \A s \in Scrapers :
       /\ \A i \in 1..Len(recv[s]) : PointOK(s, recv[s][i])
       /\ pc[s] = "send" =>
            /\ Len(Points(s, vars[s])) = PointsPerRow(s)
            /\ \A i \in 1..PointsPerRow(s) : PointOK(s, Points(s, vars[s])[i])

C15_Witness ==
  /\ pc[Aurora] = "send" /\ pidx[Aurora] = 2 /\ pos[Aurora] = 2
  /\ Len(recv[Aurora]) >= 2 /\ Len(recv[Trx]) >= 3
  /\ ch # <<>>

(* What a returned call has returned and sent, from what the query and the
   cursor gave it. *)
ExpectedOutcome(s) ==
  IF qres[s] # "rows" THEN qres[s]
  ELSE IF ~iterErr[s] /\ DecodablePrefix(rows[s]) < Len(rows[s]) THEN ErrScan
  ELSE Nil
ExpectedPoints(s) ==
  IF qres[s] # "rows" THEN <<>>
  ELSE IF iterErr[s] THEN WantRows(s, rows[s], pos[s])
  ELSE WantRows(s, rows[s], DecodablePrefix(rows[s]))

(* C16: a call queries the server whatever the server's version is, and
   what it returns and sends follows from the answer of the query alone, on
   a server older than Version() as on any other; on a server without the
   table the call returns the error of the query and has sent no point. *)
C16_NoVersionCheck ==
  \A s \in Scrapers :
    Done(s) =>
      /\ queries[s] = 1 /\ qres[s] # "pending"
      /\ outcome[s] = ExpectedOutcome(s)
      /\ emitted(s) = ExpectedPoints(s)
      /\ s \notin engine.tables =>
           /\ qres[s] \in {ErrQuery, ErrCtx}
           /\ outcome[s] = qres[s]
           /\ emitted(s) = <<>>

(* MySQL 5.5, older than Version(): innodb_trx is read as on any server,
   and the query of replica_host_status fails. *)
C16_Witness ==
  /\ engine.version < Version(Trx)
  /\ Done(Trx) /\ outcome[Trx] = Nil /\ Len(emitted(Trx)) = 6
  /\ Done(Aurora) /\ Aurora \notin engine.tables
  /\ outcome[Aurora] = ErrQuery /\ emitted(Aurora) = <<>>

(* C17: a call that has returned, with nil or with an error, has sent a
   whole number of rows: the number of its points is a multiple of the
   points of one row (3 for innodb_trx, 2 for aurora). *)
C17_WholeRowsAtReturn ==
  \A s \in Scrapers :
    Done(s) => Len(emitted(s)) % PointsPerRow(s) = 0

C17_Witness ==
  /\ Done(Trx) /\ outcome[Trx] = ErrScan /\ pos[Trx] = 2
  /\ Len(emitted(Trx)) = 3
  /\ Done(Aurora) /\ outcome[Aurora] = Nil /\ iterErr[Aurora]
  /\ Len(emitted(Aurora)) = 2

(* The cursor is in use: the call is at Next, at Scan or at a send. *)
InLoop(s) == pc[s] \in {"next", "scan", "send"}

CursorLifecycle(s) ==
  /\ closes[s] <= 1
  /\ closes[s] = 1 => Done(s) /\ qres[s] = "rows" /\ cursor[s] = "closed"
  /\ InLoop(s) => closes[s] = 0 /\ cursor[s] = "open"

(* Once the call has closed its cursor it reads no row, scans nothing and
   sends nothing. *)
NothingAfterClose(s) ==
  (callNo'[s] = callNo[s] /\ closes[s] >= 1) =>
    /\ pos'[s] = pos[s] /\ vars'[s] = vars[s]
    /\ emittedNext(s) = emitted(s)
    /\ closes'[s] = closes[s]

(* C18: within one call Scrape closes the cursor at most once, and only a
   cursor that the query has opened; after the close the call performs no
   Next and no Scan and sends no point. *)
C18_CursorLifecycle ==
  /\ [](\A s \in Scrapers : CursorLifecycle(s))
  /\ [][\A s \in Scrapers : NothingAfterClose(s)]_allvars

C18_Witness ==
  /\ Done(Trx) /\ closes[Trx] = 1 /\ outcome[Trx] = Nil /\ pos[Trx] = 2
  /\ Done(Aurora) /\ closes[Aurora] = 0 /\ qres[Aurora] = ErrQuery
  /\ Pick(ch, Trx, callNo[Trx]) # <<>>

(* C19: with a consumer that keeps receiving, every call in progress, alone
   or next to a call of the other scraper sending on the same channel,
   eventually returns: whenever calls are in progress, a state follows in
   which all of them have returned.  And as long as a call is at a send,
   waiting or not, its cursor is open: the call has not closed it. *)
C19_ReturnsWhenDrained ==
  /\ (\E s \in Scrapers : InProgress(s)) ~> (\A s \in Scrapers : ~InProgress(s))
  /\ [](\A s \in Scrapers :
          pc[s] = "send" => cursor[s] = "open" /\ closes[s] = 0)

(* Both calls wait with a point to send, the channel is full. *)
C19_Witness ==
  /\ pc[Trx] = "send" /\ pc[Aurora] = "send"
  /\ Len(ch) = ChanCap /\ ~ENABLED Send(Trx) /\ ~ENABLED Send(Aurora)
  /\ cursor[Trx] = "open" /\ cursor[Aurora] = "open"
  /\ pos[Trx] = 2 /\ pos[Aurora] = 2
====
